---- MODULE Spec2Model ----
(***************************************************************************)
(* TCG event log decoder of cctrusted_base (TcgEventLog): the parse loop,  *)
(* the header and body record parsers and the selector, over byte buffers. *)
(* A byte is a number in 0..255, a buffer a sequence of bytes, an offset   *)
(* is 0-based as in the source.                                            *)
(***************************************************************************)
EXTENDS Integers, Sequences, FiniteSets, TLC

(* ------------------------------ bounds -------------------------------- *)
\* records (templates) concatenated into one input buffer
MaxRecords == 3
\* select calls made on one EventLog
MaxCalls == 2
\* largest start / count argument passed to select
MaxArg == 3

(* ----------------------------- constants ------------------------------ *)
\* TcgEventType.EV_NO_ACTION
EV_NO_ACTION == 3

\* Python's None for an optional integer argument: the empty sequence; a
\* provided integer n is <<n>>.
None == <<>>
Some(n) == <<n>>
NoObject == [tag |-> "None"]

(* --------------------------- Cursor Reader ---------------------------- *)
\* TLC's integers are 32 bits wide and signed, so an unsigned 32-bit field v
\* is held as v when v < 2^31 and as v - 2^32 otherwise: distinct fields are
\* held as distinct numbers, and a held number below 0 is a field of 2^31 or
\* more, which is more than any buffer is long.
Held32(b1, b2, b3, b4) ==
    b1 + 256 * b2 + 65536 * b3 + 16777216 * (IF b4 < 128 THEN b4 ELSE b4 - 256)

\* BinaryBlob: every read fails (OutOfBounds) when it would pass the end of
\* the buffer, and otherwise returns the value and the next offset.
CanRead(d, pos, n) == n >= 0 /\ n <= Len(d) - pos
get_uint8(d, pos) == d[pos + 1]
get_uint16(d, pos) == d[pos + 1] + 256 * d[pos + 2]
get_uint32(d, pos) == Held32(d[pos + 1], d[pos + 2], d[pos + 3], d[pos + 4])
get_bytes(d, pos, n) == SubSeq(d, pos + 1, pos + n)

\* 0xFFFFFFFF, the register index that ends the log
END_MARKER == Held32(255, 255, 255, 255)

\* One more turn of `for _ in range(k)` done: a k of 2^31 or more (held
\* below 0) does not run out before the buffer does.
Remaining(k) == IF k < 0 THEN k ELSE k - 1

\* (the whole buffer handed over, whatever the offset)
SliceWhole(d, start) == d
\* data[start:]
Slice(d, start) == SubSeq(d, start + 1, Len(d))

(* ------------------------ Header Record Parser ------------------------ *)
\* for _ in range(spec_id_num_of_algo): (algo_id u16, digest_size u16)
RECURSIVE ReadAlgoSizes(_, _, _, _)
ReadAlgoSizes(d, pos, k, acc) ==
    IF k = 0 THEN [ok |-> TRUE, index |-> pos, sizes |-> acc]
    ELSE IF ~CanRead(d, pos, 4) THEN [ok |-> FALSE, index |-> pos, sizes |-> acc]
    ELSE ReadAlgoSizes(d, pos + 4, Remaining(k),
             Append(acc, [algo_id |-> get_uint16(d, pos),
                          digest_size |-> get_uint16(d, pos + 2)]))

\* TcgPcClientImrEvent(header_imr, header_event_type, digest, size, event)
HeaderOf(d) ==
    [tag |-> "TcgPcClientImrEvent",
     imr_index |-> get_uint32(d, 0) - 1,
     event_type |-> get_uint32(d, 4),
     digest |-> get_bytes(d, 8, 20),
     event_size |-> get_uint32(d, 28),
     event |-> get_bytes(d, 32, get_uint32(d, 28))]

\* _parse_header(data): err is "" on success; header_set tells whether
\* self._spec_id_header was assigned before the outcome, event_set whether
\* self._spec_id_header_event was.
parse_header(d) ==
    LET fail(hs) == [err |-> "OutOfBounds", header_set |-> hs,
                     header |-> IF hs THEN HeaderOf(d) ELSE NoObject,
                     event_set |-> FALSE, event |-> NoObject, index |-> 0]
    IN
    IF ~CanRead(d, 0, 32) THEN fail(FALSE)
    ELSE IF ~CanRead(d, 32, get_uint32(d, 28)) THEN fail(FALSE)
    ELSE IF ~CanRead(d, 32, 28) THEN fail(TRUE)
    ELSE
      LET num == get_uint32(d, 56)
          algos == ReadAlgoSizes(d, 60, num, <<>>)
      IN
      IF ~algos.ok THEN fail(TRUE)
      ELSE IF ~CanRead(d, algos.index, 1) THEN fail(TRUE)
      ELSE
        LET vsize == get_uint8(d, algos.index)
            vpos == algos.index + 1
        IN
        IF vsize > 0 /\ ~CanRead(d, vpos, vsize) THEN fail(TRUE)
        ELSE
          [err |-> "", header_set |-> TRUE, header |-> HeaderOf(d),
           event_set |-> TRUE,
           event |-> [tag |-> "TcgEfiSpecIdEvent",
                      signature |-> get_bytes(d, 32, 16),
                      platform_class |-> get_uint32(d, 48),
                      version_minor |-> get_uint8(d, 52),
                      version_major |-> get_uint8(d, 53),
                      errata |-> get_uint8(d, 54),
                      uintn_size |-> get_uint8(d, 55),
                      num_of_algo |-> num,
                      digest_sizes |-> algos.sizes,
                      vendor_size |-> vsize,
                      vendor_info |-> get_bytes(d, vpos, vsize)],
           index |-> vpos + vsize]

(* ------------------------- Body Record Parser ------------------------- *)
\* (a lookup that takes the first registry entry whatever its id)
FindAlgNoCheck(sizes, alg_id) == IF Len(sizes) > 0 THEN 1 ELSE 0
\* next((alg for alg in digest_sizes if alg.algo_id == alg_id), None):
\* the 1-based position of the first match, 0 for None.
FindAlg(sizes, alg_id) ==
    IF \E i \in 1..Len(sizes) : sizes[i].algo_id = alg_id
    THEN CHOOSE i \in 1..Len(sizes) :
             /\ sizes[i].algo_id = alg_id
             /\ \A j \in 1..(i - 1) : sizes[j].algo_id # alg_id
    ELSE 0

\* (a digest loop that looks the registry up before it tests the count)
ReadDigestsRegistryFirst(d, pos, k, reg, acc) ==
    IF reg = NoObject
    THEN [err |-> "AttributeError", index |-> pos, digests |-> acc]
    ELSE IF k = 0 THEN [err |-> "", index |-> pos, digests |-> acc]
    ELSE [err |-> "UnknownAlgorithm", index |-> pos, digests |-> acc]
\* for _ in range(digest_count): alg_id u16, digest bytes of registry size
RECURSIVE ReadDigests(_, _, _, _, _)
ReadDigests(d, pos, k, reg, acc) ==
    IF k = 0 THEN [err |-> "", index |-> pos, digests |-> acc]
    ELSE IF ~CanRead(d, pos, 2)
         THEN [err |-> "OutOfBounds", index |-> pos, digests |-> acc]
    ELSE IF reg = NoObject
         THEN [err |-> "AttributeError", index |-> pos, digests |-> acc]
    ELSE
      LET alg_id == get_uint16(d, pos)
          a == FindAlg(reg.digest_sizes, alg_id)
      IN
      IF a = 0
      THEN [err |-> "UnknownAlgorithm", index |-> pos, digests |-> acc]
      ELSE
        LET size == reg.digest_sizes[a].digest_size IN
        IF ~CanRead(d, pos + 2, size)
        THEN [err |-> "OutOfBounds", index |-> pos, digests |-> acc]
        ELSE ReadDigests(d, pos + 2 + size, Remaining(k), reg,
                 Append(acc, [alg_id |-> alg_id,
                              hash |-> get_bytes(d, pos + 2, size)]))

\* _parse_event_log_body(data), reading self._spec_id_header_event (reg)
parse_event_log_body(d, reg) ==
    LET fail(e) == [err |-> e, entry |-> NoObject, index |-> 0] IN
    IF ~CanRead(d, 0, 12) THEN fail("OutOfBounds")
    ELSE
      LET ds == ReadDigests(d, 12, get_uint32(d, 8), reg, <<>>) IN
      IF ds.err # "" THEN fail(ds.err)
      ELSE IF ~CanRead(d, ds.index, 4) THEN fail("OutOfBounds")
      ELSE
        LET event_size == get_uint32(d, ds.index) IN
        IF ~CanRead(d, ds.index + 4, event_size) THEN fail("OutOfBounds")
        ELSE [err |-> "",
              entry |-> [tag |-> "TcgImrEventLogEntry",
                         imr_index |-> get_uint32(d, 0) - 1,
                         event_type |-> get_uint32(d, 4),
                         digests |-> ds.digests,
                         event_size |-> event_size,
                         event |-> get_bytes(d, ds.index + 4, event_size)],
              index |-> ds.index + 4 + event_size]

(* ------------------------------ inputs -------------------------------- *)
\* little-endian encodings, as the wire format of the log
LE16(n) == <<n % 256, (n \div 256) % 256>>
LE32(n) == <<n % 256, (n \div 256) % 256, (n \div 65536) % 256,
             (n \div 16777216) % 256>>
Fill(n, b) == [i \in 1..n |-> b]

RECURSIVE Flatten(_)
Flatten(ss) == IF ss = <<>> THEN <<>> ELSE Head(ss) \o Flatten(Tail(ss))

EncAlgoSizes(sizes) ==
    Flatten([i \in 1..Len(sizes) |->
                LE16(sizes[i].algo_id) \o LE16(sizes[i].digest_size)])

\* A no-action record: `declared` is the algorithm count field, `pad` the
\* bytes of the event beyond the vendor info that event_size also covers.
EncHeader(imr, sizes, declared, vendor, pad) ==
    LET ev == Fill(16, 83) \o LE32(0) \o <<0, 2, 0, 2>> \o LE32(declared)
              \o EncAlgoSizes(sizes) \o <<Len(vendor)>> \o vendor
    IN LE32(imr) \o LE32(EV_NO_ACTION) \o Fill(20, 0)
       \o LE32(Len(ev) + pad) \o ev \o Fill(pad, 0)

EncDigests(ds) ==
    Flatten([i \in 1..Len(ds) |-> LE16(ds[i].alg_id) \o ds[i].hash])

\* A measurement record
EncBody(imr, event_type, ds, event) ==
    LE32(imr) \o LE32(event_type) \o LE32(Len(ds)) \o EncDigests(ds)
    \o LE32(Len(event)) \o event

Alg(id, size) == [algo_id |-> id, digest_size |-> size]
Dig(id, h) == [alg_id |-> id, hash |-> h]

\* The records input buffers are built from.
HdrOneByte == EncHeader(1, <<Alg(4, 1)>>, 1, <<>>, 0)      \* registry [(4, 1)]
HdrTwoByte == EncHeader(1, <<Alg(4, 2)>>, 1, <<9>>, 0)     \* registry [(4, 2)], vendor info
HdrPadded == EncHeader(1, <<Alg(4, 1)>>, 1, <<>>, 1)       \* event_size covers a padding byte
HdrShort == EncHeader(1, <<Alg(4, 1)>>, 2, <<>>, 0)        \* declares 2 algorithms, holds 1
BodyNoDigest == EncBody(1, 1, <<>>, <<5>>)                 \* digest_count = 0
BodyOneByte == EncBody(2, 1, <<Dig(4, <<170>>)>>, <<>>)    \* one 1-byte digest
BodyTwoByte == EncBody(3, 1, <<Dig(4, <<170, 7>>)>>, <<>>) \* one 2-byte digest
BodyUnknown == EncBody(4, 1, <<Dig(39321, <<1>>)>>, <<>>)  \* algorithm id 0x9999
BodyMixed ==                                               \* a known id, then 0x9999
    EncBody(5, 1, <<Dig(4, <<170>>), Dig(39321, <<1>>)>>, <<>>)
BareMarker == Fill(4, 255)                                 \* register index 0xFFFFFFFF

Templates ==
    << HdrOneByte, HdrTwoByte, HdrPadded, HdrShort, BodyNoDigest, BodyOneByte,
       BodyTwoByte, BodyUnknown, BodyMixed, BareMarker >>

RECURSIVE SeqsUpTo(_, _)
SeqsUpTo(S, n) ==
    IF n = 0 THEN {<<>>}
    ELSE LET shorter == SeqsUpTo(S, n - 1) IN
         shorter \cup {Append(s, x) : s \in {t \in shorter : Len(t) = n - 1}, x \in S}

Range(f) == {f[i] : i \in DOMAIN f}

Buffers == {Flatten(ts) : ts \in SeqsUpTo(Range(Templates), MaxRecords)}

\* start / count: not provided, or an integer; -1 and 0 are below every index
Args == {None} \cup {Some(n) : n \in (-1)..MaxArg}

(* ------------------------------- state -------------------------------- *)
VARIABLES
    data,                  \* self._data (eventlog.py:32), when it is a buffer
    data_none,             \* self._data is None
    spec_id_header,        \* self._spec_id_header (eventlog.py:33)
    spec_id_header_event,  \* self._spec_id_header_event (eventlog.py:34)
    event_logs,            \* self._event_logs (eventlog.py:35)
    count,                 \* self._count (eventlog.py:36)
    pc,                    \* position in select: idle, parse, start, count
    index,                 \* _parse: index
    arg_start, arg_count,  \* the arguments of the select call in progress / last made
    result,                \* outcome of the last select call
    calls,                 \* select calls made so far
    logs_at_call,          \* history: event_logs when the call was made
    count_at_call,         \* history: count when the call was made
    logs_parsed,           \* history: event_logs when _parse returned to select
    consumed               \* history: sum of the lengths the sub-parsers returned in this pass

vars == <<data, data_none, spec_id_header, spec_id_header_event, event_logs,
          count, pc, index, arg_start, arg_count, result, calls, logs_at_call,
          count_at_call, logs_parsed, consumed>>

\* __init__
Init ==
    /\ \/ data \in Buffers /\ data_none = FALSE
       \/ data = <<>> /\ data_none = TRUE
    /\ spec_id_header = NoObject
    /\ spec_id_header_event = NoObject
    /\ event_logs = <<>>
    /\ count = 0
    /\ pc = "idle"
    /\ index = 0
    /\ arg_start = None
    /\ arg_count = None
    /\ result = "none"
    /\ calls = 0
    /\ logs_at_call = <<>>
    /\ count_at_call = 0
    /\ logs_parsed = <<>>
    /\ consumed = 0

(* ------------------------------ select -------------------------------- *)
\* (a check that turns start = count away)
StartValidStrict(start, n) == 0 < start /\ start < n
\* if not 0 < start <= self._count
StartValid(start, n) == 0 < start /\ start <= n
\* if not 0 < count <= len(self._event_logs)
CountValid(c, n) == 0 < c /\ c <= n
\* (a front truncation that drops one record more)
DropBeforeOffByOne(logs, start) == SubSeq(logs, start + 1, Len(logs))
\* self._event_logs[start-1:]
DropBefore(logs, start) == SubSeq(logs, start, Len(logs))
\* (a back truncation that keeps one record less)
TakeFirstOffByOne(logs, c) == SubSeq(logs, 1, c - 1)
\* self._event_logs[:count]
TakeFirst(logs, c) == SubSeq(logs, 1, c)

DecodeErrors == {"OutOfBounds", "UnknownAlgorithm", "AttributeError"}

\* select(start, count) is called: it calls _parse, which starts at index 0.
\* The call's arguments are not read before _parse has returned, so each is
\* drawn by the step that first reads it (SelectStart, SelectCount).
Select ==
    /\ pc = "idle"
    /\ calls < MaxCalls
    /\ pc' = "parse"
    /\ index' = 0
    /\ arg_start' = None
    /\ arg_count' = None
    /\ result' = "none"
    /\ calls' = calls + 1
    /\ logs_at_call' = event_logs
    /\ count_at_call' = count
    /\ logs_parsed' = <<>>
    /\ consumed' = 0
    /\ UNCHANGED <<data, data_none, spec_id_header, spec_id_header_event,
                   event_logs, count>>

\* An exception leaves select: the call is over, the object keeps its fields.
Raise(e) ==
    /\ pc' = "idle"
    /\ result' = e
    /\ UNCHANGED <<data, data_none, index, arg_start, arg_count, calls,
                   logs_at_call, count_at_call, consumed>>

(* ----------------------------- parse loop ----------------------------- *)
\* The bytes the loop reads at `index` before it tests for the end marker:
\* imr and event_type.
PeekWidth == 8

\* (the cursor carried on from the offset after the two reads)
AdvanceFromPeek(start, len) == start + PeekWidth + len
\* (the cursor left where the record starts)
AdvanceStuck(start, len) == start
\* index = start + header_len / index = start + e_len
Advance(start, len) == start + len

\* `index` is the offset the loop is at: the value of the source's `index`
\* at the loop test, which the loop body keeps in `start`.
InLoop == pc = "parse" /\ ~data_none /\ index < Len(data)
Peeked == InLoop /\ CanRead(data, index, PeekWidth)
imr == get_uint32(data, index)
event_type == get_uint32(data, index + 4)

\* while index < len(self._data): false, _parse returns to select
ParseExit ==
    /\ pc = "parse"
    /\ ~data_none
    /\ ~(index < Len(data))
    /\ pc' = "start"
    /\ logs_parsed' = event_logs
    /\ UNCHANGED <<data, data_none, spec_id_header, spec_id_header_event,
                   event_logs, count, index, arg_start, arg_count, result,
                   calls, logs_at_call, count_at_call, consumed>>

\* self._data is None: the error is logged, then len(self._data) raises
ParseNoData ==
    /\ pc = "parse"
    /\ data_none
    /\ Raise("TypeError")
    /\ UNCHANGED <<spec_id_header, spec_id_header_event, event_logs, count,
                   logs_parsed>>

\* blob.get_uint32 of imr or of event_type passes the end of the buffer
ParsePeekFail ==
    /\ InLoop
    /\ ~CanRead(data, index, PeekWidth)
    /\ Raise("OutOfBounds")
    /\ UNCHANGED <<spec_id_header, spec_id_header_event, event_logs, count,
                   logs_parsed>>

\* if imr == 0xFFFFFFFF: break
ParseMarker ==
    /\ Peeked
    /\ imr = END_MARKER
    /\ pc' = "start"
    /\ logs_parsed' = event_logs
    /\ UNCHANGED <<data, data_none, spec_id_header, spec_id_header_event,
                   event_logs, count, index, arg_start, arg_count, result,
                   calls, logs_at_call, count_at_call, consumed>>

\* event_type == EV_NO_ACTION and _parse_header returns
ParseHeader ==
    /\ Peeked
    /\ imr # END_MARKER
    /\ event_type = EV_NO_ACTION
    /\ LET r == parse_header(Slice(data, index)) IN
       /\ r.err = ""
       /\ spec_id_header' = r.header
       /\ spec_id_header_event' = r.event
       /\ index' = Advance(index, r.index)
       /\ count' = count + 1
       /\ consumed' = consumed + r.index
    /\ UNCHANGED <<data, data_none, event_logs, pc, arg_start, arg_count, result,
                   calls, logs_at_call, count_at_call, logs_parsed>>

\* event_type == EV_NO_ACTION and _parse_header raises
ParseHeaderFail ==
    /\ Peeked
    /\ imr # END_MARKER
    /\ event_type = EV_NO_ACTION
    /\ LET r == parse_header(Slice(data, index)) IN
       /\ r.err # ""
       /\ spec_id_header' = IF r.header_set THEN r.header ELSE spec_id_header
       /\ spec_id_header_event' = IF r.event_set THEN r.event ELSE spec_id_header_event
       /\ Raise(r.err)
    /\ UNCHANGED <<event_logs, count, logs_parsed>>

\* any other event type and _parse_event_log_body returns
ParseBody ==
    /\ Peeked
    /\ imr # END_MARKER
    /\ event_type # EV_NO_ACTION
    /\ LET r == parse_event_log_body(Slice(data, index), spec_id_header_event) IN
       /\ r.err = ""
       /\ index' = Advance(index, r.index)
       /\ event_logs' = Append(event_logs, r.entry)
       /\ count' = count + 1
       /\ consumed' = consumed + r.index
    /\ UNCHANGED <<data, data_none, spec_id_header, spec_id_header_event, pc,
                   arg_start, arg_count, result, calls, logs_at_call,
                   count_at_call, logs_parsed>>

\* any other event type and _parse_event_log_body raises
ParseBodyFail ==
    /\ Peeked
    /\ imr # END_MARKER
    /\ event_type # EV_NO_ACTION
    /\ LET r == parse_event_log_body(Slice(data, index), spec_id_header_event) IN
       /\ r.err # ""
       /\ Raise(r.err)
    /\ UNCHANGED <<spec_id_header, spec_id_header_event, event_logs, count,
                   logs_parsed>>

(* ------------------------- select, after _parse ----------------------- *)
\* if start is not None: validate, then truncate the front
SelectStart(start) ==
    /\ pc = "start"
    /\ arg_start' = start
    /\ IF start = None
       THEN /\ pc' = "count"
            /\ UNCHANGED <<event_logs, result>>
       ELSE IF ~StartValid(start[1], count)
       THEN /\ pc' = "idle"
            /\ result' = "InvalidRange"
            /\ UNCHANGED event_logs
       ELSE /\ event_logs' = DropBefore(event_logs, start[1])
            /\ pc' = "count"
            /\ UNCHANGED result
    /\ UNCHANGED <<data, data_none, spec_id_header, spec_id_header_event,
                   count, index, arg_count, calls, logs_at_call, count_at_call,
                   logs_parsed, consumed>>

\* if count is not None: validate, then truncate the back; select returns
SelectCount(cnt) ==
    /\ pc = "count"
    /\ arg_count' = cnt
    /\ IF cnt = None
       THEN /\ result' = "ok"
            /\ UNCHANGED event_logs
       ELSE IF ~CountValid(cnt[1], Len(event_logs))
       THEN /\ result' = "InvalidRange"
            /\ UNCHANGED event_logs
       ELSE /\ event_logs' = TakeFirst(event_logs, cnt[1])
            /\ result' = "ok"
    /\ pc' = "idle"
    /\ UNCHANGED <<data, data_none, spec_id_header, spec_id_header_event,
                   count, index, arg_start, calls, logs_at_call, count_at_call,
                   logs_parsed, consumed>>

Next ==
    \/ Select
    \/ ParseNoData
    \/ ParseExit
    \/ ParsePeekFail
    \/ ParseMarker
    \/ ParseHeader
    \/ ParseHeaderFail
    \/ ParseBody
    \/ ParseBodyFail
    \/ \E start \in Args : SelectStart(start)
    \/ \E cnt \in Args : SelectCount(cnt)

Spec == Init /\ [][Next]_vars

(* ----------------------------- properties ----------------------------- *)
CallDone == pc = "idle" /\ calls > 0
\* the call's parse pass ran to its end (end marker or end of buffer)
ParsePassed == CallDone /\ result \in {"ok", "InvalidRange"}
ParseFailed == CallDone /\ result \in DecodeErrors

\* s is t[i+1 .. i+n] for some i, n
IsWindowOf(s, t) ==
    \E i \in 0..Len(t) : \E n \in 0..(Len(t) - i) : s = SubSeq(t, i + 1, i + n)

\* Logs that are valid whatever the reading: one header with registry
\* [(4, 1)] and exact event_size, then measurement records that fit it, the
\* buffer ending with the last record.
PlainLogs ==
    {ts \in SeqsUpTo({HdrOneByte, BodyNoDigest, BodyOneByte}, MaxRecords) :
        /\ Len(ts) >= 1
        /\ ts[1] = HdrOneByte
        /\ \A i \in 2..Len(ts) : ts[i] # HdrOneByte}

\* C1: once the log has been parsed, a select call never re-parses and never
\* extends: the records after a later call are a contiguous sub-sequence of
\* the records held just before that call.
C1_SelectOnlyTruncates ==
    (ParsePassed /\ calls >= 2) => IsWindowOf(event_logs, logs_at_call)

\* C2: header, registry, records and count are populated exactly once: after
\* any number of successful select calls on a valid log, count is the number
\* of records in the buffer (header and measurement records).
C2_CountIsRecordsInBuffer ==
    \A ts \in PlainLogs :
        (data = Flatten(ts) /\ CallDone /\ result = "ok") => count = Len(ts)

\* C3: a select call that fails with InvalidRange applies no partial
\* truncation: records are the parsed records as they stood before the
\* truncation steps of the call.
C3_InvalidRangeTruncatesNothing ==
    (CallDone /\ result = "InvalidRange") => event_logs = logs_parsed

\* C4: start is a 1-based index into the measurement records: when select
\* succeeds with start provided, 1 <= start <= number of measurement records
\* and the first record kept is the start-th measurement record.
C4_StartAddressesMeasurementRecords ==
    (arg_start # None /\ (pc = "count" \/ (CallDone /\ result = "ok"))) =>
        /\ 1 <= arg_start[1]
        /\ arg_start[1] <= Len(logs_parsed)
        /\ event_logs # <<>>
        /\ event_logs[1] = logs_parsed[arg_start[1]]

\* The bounds of 4.5, from the fields of the log: total_count is the log's
\* count, the records remaining are those from the start-th on.
StartOutOfRange ==
    arg_start # None /\ ~(1 <= arg_start[1] /\ arg_start[1] <= count)
RemainingAfterStart ==
    IF arg_start = None THEN Len(logs_parsed)
    ELSE IF arg_start[1] > Len(logs_parsed) THEN 0
    ELSE Len(logs_parsed) - arg_start[1] + 1
CountOutOfRange ==
    arg_count # None /\ ~(1 <= arg_count[1] /\ arg_count[1] <= RemainingAfterStart)

AtEndMarker ==
    /\ InLoop
    /\ CanRead(data, index, 4)
    /\ get_uint32(data, index) = END_MARKER

\* C6: at an in-bounds offset whose register index is 0xFFFFFFFF the loop
\* goes to DONE without an error, adding no record and leaving count alone,
\* wherever the marker lies, also in the last 4 bytes of the buffer.
C6_EndMarkerStopsWithoutError ==
    [][AtEndMarker =>
        /\ pc' = "start"
        /\ result' \notin DecodeErrors
        /\ event_logs' = event_logs
        /\ count' = count]_vars

\* A sub-parser was dispatched for the record at index.
Dispatched == Peeked /\ imr # END_MARKER

\* C7: when a sub-parser fails on a record, no partial record is retained:
\* header, registry, records and count are as before the record's decoding.
C7_FailedRecordLeavesNothing ==
    [][(Dispatched /\ pc' = "idle") =>
        /\ spec_id_header' = spec_id_header
        /\ spec_id_header_event' = spec_id_header_event
        /\ event_logs' = event_logs
        /\ count' = count]_vars

\* C8: a decode error aborts the whole pass with no partial result: after a
\* pass that ended in FAILED the log exposes none of the records decoded
\* earlier in the pass (records is empty and count is 0). Stated for the
\* decode error the body parser raises itself, UnknownAlgorithm.
C8_FailedPassExposesNothing ==
    (ParseFailed /\ result = "UnknownAlgorithm") =>
        (event_logs = <<>> /\ count = 0)

\* Some digest entry of the body record at pos, read with the registry
\* `sizes`, names an algorithm id that no entry of `sizes` has.
RECURSIVE NamesUnknownAlg(_, _, _, _)
NamesUnknownAlg(d, pos, k, sizes) ==
    /\ k # 0
    /\ CanRead(d, pos, 2)
    /\ LET id == get_uint16(d, pos)
           known == {i \in 1..Len(sizes) : sizes[i].algo_id = id}
       IN IF known = {} THEN TRUE
          ELSE LET first == CHOOSE i \in known : \A j \in known : i <= j
                   size == sizes[first].digest_size
               IN /\ CanRead(d, pos + 2, size)
                  /\ NamesUnknownAlg(d, pos + 2 + size, Remaining(k), sizes)

AtUnknownAlgRecord ==
    /\ Dispatched
    /\ event_type # EV_NO_ACTION
    /\ spec_id_header_event # NoObject
    /\ CanRead(data, index, 12)
    /\ NamesUnknownAlg(data, index + 12, get_uint32(data, index + 8),
                       spec_id_header_event.digest_sizes)

\* C9: a measurement record with a digest entry whose algorithm id is not in
\* the registry makes the parse fail with UnknownAlgorithm; the record is not
\* appended and the pass decodes nothing after it.
C9_UnknownAlgorithmAborts ==
    [][AtUnknownAlgRecord =>
        /\ pc' = "idle"
        /\ result' = "UnknownAlgorithm"
        /\ event_logs' = event_logs
        /\ count' = count
        /\ index' = index]_vars

\* C9 witness: a pass has failed with UnknownAlgorithm after it had decoded
\* a header and a measurement record.
C9_Witness ==
    /\ CallDone
    /\ result = "UnknownAlgorithm"
    /\ Len(event_logs) >= 1
    /\ spec_id_header_event # NoObject

\* C10: a header record parsed successfully moves the cursor to
\* start-of-record + 8 + 20 + 4 + event_size, event_size being the record's
\* declared event-size field.
C10_HeaderAdvancesByEventSize ==
    [][(Dispatched /\ event_type = EV_NO_ACTION /\ pc' = "parse") =>
        index' = index + 8 + 20 + 4 + get_uint32(data, index + 28)]_vars

\* C11: a parse over an absent (None) or empty buffer does not raise: it
\* completes with count = 0, records empty and header unset.
C11_NoInputParsesToNothing ==
    (CallDone /\ (data_none \/ data = <<>>)) =>
        /\ result \in {"ok", "InvalidRange"}
        /\ count = 0
        /\ event_logs = <<>>
        /\ spec_id_header = NoObject

\* The parse pass of the call in progress has just reached DONE.
PassDone == pc = "start"

\* C12: when the parse loop reaches DONE (end marker found or buffer
\* exhausted) the lengths the sub-parsers returned for the records parsed add
\* up to the offset at which DONE is reached: the offset of the end marker,
\* or the cursor that is at or past the buffer length.
C12_ConsumedAddsUpToDoneOffset ==
    PassDone => consumed = index

\* C12 witness: DONE was reached at an end marker that a record precedes.
C12_Witness ==
    /\ PassDone
    /\ index < Len(data)
    /\ imr = END_MARKER
    /\ count - count_at_call = 1
    /\ consumed > 0

\* No-action records that are well-formed, with the registry each declares.
PlainHeaders ==
    { [bytes |-> HdrOneByte, sizes |-> <<Alg(4, 1)>>],
      [bytes |-> HdrTwoByte, sizes |-> <<Alg(4, 2)>>],
      [bytes |-> HdrPadded, sizes |-> <<Alg(4, 1)>>] }

IsPrefixAt(b, d, pos) == CanRead(d, pos, Len(b)) /\ get_bytes(d, pos, Len(b)) = b

\* The first entry of `sizes` with the id, as a set: empty when there is none.
FirstSizeFor(sizes, id) ==
    {sizes[i].digest_size : i \in {j \in 1..Len(sizes) :
        /\ sizes[j].algo_id = id
        /\ \A k \in 1..(j - 1) : sizes[k].algo_id # id}}

\* Every digest of the entry has the length `reg` gives for its algorithm id.
DigestsFit(entry, reg) ==
    /\ reg # NoObject \/ entry.digests = <<>>
    /\ \A i \in 1..Len(entry.digests) :
           FirstSizeFor(reg.digest_sizes, entry.digests[i].alg_id)
               = {Len(entry.digests[i].hash)}

\* The step has appended a record in the parse loop.
Appends == pc = "parse" /\ Len(event_logs') = Len(event_logs) + 1

C14_DigestsFitRegistry ==
    \A i \in 1..Len(event_logs) : DigestsFit(event_logs[i], spec_id_header_event)

\* C14 as amended: each record is appended with digests as long as the
\* registry in force at that moment says (the most recently parsed header).
C14_DigestsFitRegistryWhenDecoded ==
    [][Appends =>
        DigestsFit(event_logs'[Len(event_logs')], spec_id_header_event)]_vars

\* C14 witness: a stored record has a 1-byte digest for an algorithm id whose
\* size in the present registry is 2.
C14_Witness ==
    /\ spec_id_header_event # NoObject
    /\ \E i \in 1..Len(event_logs) :
           /\ Len(event_logs[i].digests) = 1
           /\ Len(event_logs[i].digests[1].hash) = 1
           /\ FirstSizeFor(spec_id_header_event.digest_sizes,
                           event_logs[i].digests[1].alg_id) = {2}

\* C15: count is the number of event logs except the header: after a parse,
\* count is the number of measurement records decoded.
C15_CountExcludesHeader ==
    (PassDone /\ calls = 1) => count = Len(event_logs)

\* C16: every iteration that does not stop the loop moves the cursor forward
\* by a strictly positive number of bytes, within the buffer: no buffer makes
\* the loop run forever.
C16_LoopAdvances ==
    [][(pc = "parse" /\ pc' = "parse") =>
        (index' > index /\ index' <= Len(data))]_vars

\* C16 witness: the loop is at its third iteration.
C16_Witness ==
    /\ pc = "parse"
    /\ count - count_at_call = 2
    /\ index > 0

\* C17: select with start = 1 and count unset is a no-op on records: after
\* the call records is the full parsed measurement-record sequence.
C17_StartOneKeepsAll ==
    (arg_start = Some(1) /\ arg_count = None /\ (pc = "count" \/ ParsePassed)) =>
        event_logs = logs_parsed

\* C17 witness: select(1, None) has returned on a log of two or more records.
C17_Witness ==
    /\ CallDone /\ result = "ok"
    /\ arg_start = Some(1) /\ arg_count = None
    /\ Len(event_logs) >= 2

\* The loop is at a measurement record whose digest_count is 0 and whose
\* event_size and event lie within the buffer.
AtNoDigestRecord ==
    /\ Dispatched
    /\ event_type # EV_NO_ACTION
    /\ CanRead(data, index, 16)
    /\ get_uint32(data, index + 8) = 0
    /\ CanRead(data, index + 16, get_uint32(data, index + 12))

\* C18: a measurement record with digest_count 0 is decoded successfully and
\* contributes one record with no digests, its event_size and event read
\* directly after the digest_count field.
C18_NoDigestRecordDecodes ==
    [][AtNoDigestRecord =>
        LET size == get_uint32(data, index + 12) IN
        /\ pc' = "parse"
        /\ Len(event_logs') = Len(event_logs) + 1
        /\ event_logs'[Len(event_logs')].digests = <<>>
        /\ event_logs'[Len(event_logs')].event_size = size
        /\ event_logs'[Len(event_logs')].event = get_bytes(data, index + 16, size)
        /\ index' = index + 16 + size
        /\ count' = count + 1]_vars

\* C18 witness: a record without digests was decoded with no registry set
\* and another record after it.
C18_Witness ==
    /\ pc = "parse"
    /\ Len(event_logs) = 2
    /\ event_logs[1].digests = <<>>
    /\ event_logs[1].event = <<5>>

\* The loop is at a measurement record with digest_count >= 1 whose first
\* algorithm id can be read, and no header has been parsed.
AtDigestsWithoutRegistry ==
    /\ Dispatched
    /\ event_type # EV_NO_ACTION
    /\ spec_id_header_event = NoObject
    /\ CanRead(data, index, 14)
    /\ get_uint32(data, index + 8) # 0

\* C19: a measurement record with digest_count >= 1 met while the registry
\* is unset aborts the parse with the UnknownAlgorithm decode error, and the
\* record is not appended.
C19_NoRegistryIsUnknownAlgorithm ==
    [][AtDigestsWithoutRegistry =>
        /\ pc' = "idle"
        /\ result' = "UnknownAlgorithm"
        /\ event_logs' = event_logs]_vars

\* C20: when select succeeds with count provided, records has exactly count
\* elements afterwards, whatever start was and however many calls came before.
C20_CountKeepsExactly ==
    (CallDone /\ result = "ok" /\ arg_count # None) =>
        Len(event_logs) = arg_count[1]

\* C20 witness: a second select call, with start and count = 2, has returned.
C20_Witness ==
    /\ CallDone /\ result = "ok"
    /\ calls = 2
    /\ arg_start # None /\ arg_start[1] > 1
    /\ arg_count = Some(2)

====
